---- MODULE Spec2Model ----
(***************************************************************************)
(* State-machine model of yuuno2's connection multiplexer                  *)
(* (yuuno2-core/yuuno2/networking/multiplex.py): Multiplexer, Channel and  *)
(* ChannelOutputStream, run by cooperative asyncio tasks.  One action is   *)
(* one run of a task between two suspension points.  The suspension points *)
(* are the waits on the write mutex, the physical connection's write and   *)
(* close, and a read of an empty ingress pipe.                             *)
(*                                                                         *)
(* Resource (acquire/release/register/ensure_acquired), Connection and the *)
(* Pipe are not part of the sources at hand; they follow sections 4.1 and  *)
(* 4.2 of the specification.                                               *)
(***************************************************************************)
EXTENDS Integers, Sequences, FiniteSets, TLC

VARIABLES
    mux,          \* Multiplexer: [acquired, closed, shutdown], whether its parent
                  \* is acquired, and the task inside Multiplexer.release()
    parentClosed, \* the physical connection's output has been closed
    streams,      \* Multiplexer.streams: name -> channel, NoChan where the key is absent
    lockHolder,   \* the task inside "async with self._w_lock", or None
    lockWaiters,  \* tasks queued on _w_lock, first come first served
    chan,         \* the Channel objects, by creation order
    pc,           \* where each task is suspended
    op,           \* the call each task is in (or has last returned from)
    inbound,      \* number of frames the ReaderTask has taken from parent.input
    last          \* the call that returned in the last step, if one did

vars == <<mux, parentClosed, streams, lockHolder, lockWaiters, chan,
          pc, op, inbound, last>>

----------------------------------------------------------------------------
(* Bounds of the model *)

MaxChannels == 2

MaxInbound == 3

MaxBusyInbound == 2

----------------------------------------------------------------------------
(* Vocabulary *)

Names == {"A", "B"}

Tasks == {"t1", "t2"}

Reader == "reader"

Procs == Tasks \cup {Reader}

None == "none"

Absent == "absent"

NoChan == 0

Chans == 1..MaxChannels

Payloads == {"p"}

\* The empty list of blobs
NoBlobs == "noblobs"

\* Fields and blob lists of the messages that are told apart
Fields == {"p", "q"}

BlobLists == {NoBlobs, "b"}

\* Message(values, blobs): a message without blobs goes by the name of its
\* fields
Message(v, b) ==
    IF b = NoBlobs THEN v ELSE IF v = "p" THEN "p+b" ELSE "q+b"

\* message.values
ValuesOf(m) == IF m \in {"p", "p+b"} THEN "p" ELSE "q"

\* message.blobs
BlobsOf(m) == IF m \in {"p+b", "q+b"} THEN "b" ELSE NoBlobs

Messages == {Message(v, b) : v \in Fields, b \in BlobLists}

EOS == "EOS"

NoFrame == [target |-> Absent, type |-> None, payload |-> Absent, blobs |-> NoBlobs]

InEOS == [target |-> Absent, type |-> EOS, payload |-> Absent, blobs |-> NoBlobs]

InboundFrames ==
    [target : Names, type : {"message", Absent}, payload : Payloads \cup {Absent},
     blobs : {NoBlobs}]
    \cup [target : Names, type : {"close", "illegal"}, payload : {Absent},
          blobs : {NoBlobs}]
    \cup {InEOS}

NoPre == [acq |-> FALSE, closed |-> FALSE, remote |-> FALSE, reg |-> FALSE,
          mux |-> FALSE]

IdleOp == [kind |-> None, ch |-> NoChan, arg |-> None, phase |-> None,
           frame |-> NoFrame, inb |-> NoFrame, emitted |-> << >>, pre |-> NoPre]

NoEvent == [kind |-> None, ch |-> NoChan, arg |-> None, inb |-> NoFrame,
            pre |-> NoPre, res |-> None, emitted |-> << >>]

NewChannel == [name |-> "", st |-> None, closed |-> FALSE, remote |-> FALSE,
               closeSent |-> 0, ingress |-> <<>>, ingressSt |-> None, egressSt |-> None]

\* Multiplexer.connect(name): a new, detached Channel bound to the name
Connected(n) == [NewChannel EXCEPT !.name = n, !.st = "detached"]

----------------------------------------------------------------------------
(* Initial state: Multiplexer(parent) constructed and the channels created  *)
(* by connect(), which touches nothing but the new Channel; nothing is     *)
(* acquired yet                                                            *)

Init ==
    /\ mux = [acquired |-> FALSE, closed |-> FALSE, shutdown |-> FALSE,
              parent |-> FALSE, releaser |-> None]
    /\ parentClosed = FALSE
    /\ streams = [n \in Names |-> NoChan]
    /\ lockHolder = None
    /\ lockWaiters = << >>
    /\ chan \in [Chans -> {Connected(n) : n \in Names}]
    /\ chan[1].name = "A"
    /\ pc = [p \in Procs |-> IF p = Reader THEN "stopped" ELSE "idle"]
    /\ op = [p \in Procs |-> IdleOp]
    /\ inbound = 0
    /\ last = NoEvent

----------------------------------------------------------------------------
(* Helpers *)

\* "name in self.multiplexer.streams"
InStreams(n) == n \in Names /\ streams[n] # NoChan

\* "self.multiplexer.streams.pop(name, None)" applied to the map st
Pop(st, n) == IF n \in Names THEN [st EXCEPT ![n] = NoChan] ELSE st

\* "async with self._w_lock": asyncio.Lock is taken at once only when it is
\* free and nobody queues for it
LockFree(h, w) == h = None /\ w = << >>

\* A pipe that hands out the newest item first
PipePush(q, x) == << x >> \o q

\* Pipe.write(item): an unbounded append
PipeWrite(q, x) == Append(q, x)

\* Pipe.close(): the end-of-stream sentinel is enqueued once
PipeClose(q) == IF q # << >> /\ q[Len(q)] = EOS THEN q ELSE Append(q, EOS)

\* Snapshot of a channel at the moment a call on it starts (for a dispatch:
\* whether the frame's target is registered)
PreOf(c) ==
    [acq |-> chan[c].st = "acquired",
     closed |-> chan[c].closed,
     remote |-> chan[c].remote,
     reg |-> InStreams(chan[c].name) /\ streams[chan[c].name] = c,
     mux |-> mux.acquired]

\* A call of kind k on channel c starts
StartOp(k, c) ==
    [kind |-> k, ch |-> c, arg |-> None, phase |-> None, frame |-> NoFrame,
     inb |-> NoFrame, emitted |-> << >>,
     pre |-> IF c = NoChan THEN NoPre ELSE PreOf(c)]

\* The record of a call o that returned (or raised) r
Event(o, r) ==
    [kind |-> o.kind, ch |-> o.ch, arg |-> o.arg, inb |-> o.inb, pre |-> o.pre,
     res |-> r, emitted |-> o.emitted]

\* The call o of task p returns (or raises) with result r and leaves p at
\* npc; ch1, st1, h, w are the channels, the registry and the mutex as the
\* call leaves them
Return(p, o, r, npc, ch1, st1, h, w) ==
    /\ chan' = ch1
    /\ streams' = st1
    /\ lockHolder' = h
    /\ lockWaiters' = w
    /\ pc' = [pc EXCEPT ![p] = npc]
    /\ op' = [op EXCEPT ![p] = IdleOp]
    /\ last' = Event(o, r)

\* What a task does while it holds _w_lock
InLock(o) == IF o.kind = "mclose" THEN "pclose" ELSE "pwrite"

\* "async with self._w_lock:" take the mutex or queue for it
WithLock(p, o, ch1, st1, h, w) ==
    /\ chan' = ch1
    /\ streams' = st1
    /\ op' = [op EXCEPT ![p] = o]
    /\ last' = NoEvent
    /\ IF LockFree(h, w)
          THEN /\ lockHolder' = p
               /\ lockWaiters' = w
               /\ pc' = [pc EXCEPT ![p] = InLock(o)]
          ELSE /\ lockHolder' = h
               /\ lockWaiters' = Append(w, p)
               /\ pc' = [pc EXCEPT ![p] = "lock"]

\* Multiplexer.write(f) with the mutex forgotten
MuxWriteNoLock(p, o, f, ch1, st1, h, w) ==
    /\ chan' = ch1
    /\ streams' = st1
    /\ op' = [op EXCEPT ![p] = [o EXCEPT !.frame = f]]
    /\ last' = NoEvent
    /\ lockHolder' = h
    /\ lockWaiters' = w
    /\ pc' = [pc EXCEPT ![p] = "pwrite"]

\* Multiplexer.write(f), past ensure_acquired
MuxWrite(p, o, f, ch1, st1, h, w) ==
    WithLock(p, [o EXCEPT !.frame = f], ch1, st1, h, w)

\* The frames ChannelOutputStream and Channel put on the wire
MessageFrame(c, v) ==
    [target |-> chan[c].name, type |-> "message", payload |-> ValuesOf(v),
     blobs |-> BlobsOf(v)]

CloseFrame(c) ==
    [target |-> chan[c].name, type |-> "close", payload |-> Absent,
     blobs |-> NoBlobs]

\* The frames the dispatch answers with (they carry an empty payload)
ReplyFrame(n, ty) ==
    [target |-> n, type |-> ty, payload |-> "empty", blobs |-> NoBlobs]

----------------------------------------------------------------------------
(* Multiplexer lifecycle and connect *)

\* Multiplexer.acquire(): parent acquired, ReaderTask started
MuxAcquire(p) ==
    /\ pc[p] = "idle"
    /\ ~mux.acquired
    /\ mux' = [mux EXCEPT !.acquired = TRUE, !.parent = TRUE]
    /\ pc' = [pc EXCEPT ![Reader] = "idle"]
    /\ last' = Event(StartOp("macquire", NoChan), "ok")
    /\ UNCHANGED <<parentClosed, streams, lockHolder, lockWaiters, chan, op, inbound>>

\* Multiplexer.close(): ensure_acquired, then parent.close() under _w_lock
MuxClose(p) ==
    /\ pc[p] = "idle"
    /\ LET o == StartOp("mclose", NoChan) IN
       IF ~mux.acquired
          THEN Return(p, o, "error", "idle", chan, streams, lockHolder, lockWaiters)
          ELSE WithLock(p, o, chan, streams, lockHolder, lockWaiters)
    /\ UNCHANGED <<mux, parentClosed, inbound>>

\* parent.close() returns: the closed flag is set and the mutex released
PCloseDone(p) ==
    /\ p \in Tasks
    /\ pc[p] = "pclose"
    /\ parentClosed' = TRUE
    /\ mux' = [mux EXCEPT !.closed = TRUE]
    /\ Return(p, op[p], "ok", "idle", chan, streams, None, lockWaiters)
    /\ UNCHANGED <<inbound>>

\* A mutex that serves every waiter but the ReaderTask
LockGrantedNotReader(p) ==
    /\ p # Reader
    /\ pc[p] = "lock"
    /\ lockHolder = None
    /\ lockHolder' = p
    /\ lockWaiters' = SelectSeq(lockWaiters, LAMBDA q : q # p)
    /\ pc' = [pc EXCEPT ![p] = InLock(op[p])]
    /\ last' = NoEvent
    /\ UNCHANGED <<mux, parentClosed, streams, chan, op, inbound>>

\* The first task queued on _w_lock gets it
LockGranted(p) ==
    /\ pc[p] = "lock"
    /\ lockHolder = None
    /\ lockWaiters # << >>
    /\ Head(lockWaiters) = p
    /\ lockHolder' = p
    /\ lockWaiters' = Tail(lockWaiters)
    /\ pc' = [pc EXCEPT ![p] = InLock(op[p])]
    /\ last' = NoEvent
    /\ UNCHANGED <<mux, parentClosed, streams, chan, op, inbound>>

----------------------------------------------------------------------------
(* Channel / ChannelOutputStream *)

\* Channel._acquire with the registry check dropped
NameNeverTaken(c) == FALSE

\* Channel._acquire, line 92: the name is already registered
NameTaken(c) == InStreams(chan[c].name)

\* Channel.acquire(): Resource.acquire() around Channel._acquire.  Nothing in
\* the hook blocks, so it runs in one step.
ChannelAcquire(p, c) ==
    /\ pc[p] = "idle"
    /\ chan[c].st # None
    /\ LET o == StartOp("acquire", c) IN
       IF chan[c].st = "acquired"
          THEN \* already acquired: no-op
               Return(p, o, "noop", "idle", chan, streams, lockHolder, lockWaiters)
       ELSE IF chan[c].st = "released"
          THEN \* self.multiplexer is None after a release
               Return(p, o, "error", "idle", chan, streams, lockHolder, lockWaiters)
       ELSE IF NameTaken(c)
          THEN \* RuntimeError("Stream already registered."); no child was
               \* registered during the attempt, so nothing is released
               Return(p, o, "error", "idle", chan, streams, lockHolder, lockWaiters)
       ELSE Return(p, o, "ok", "idle",
                   [chan EXCEPT ![c].st = "acquired", ![c].ingress = << >>,
                                ![c].ingressSt = "acquired",
                                ![c].egressSt = "acquired"],
                   [streams EXCEPT ![chan[c].name] = c],
                   lockHolder, lockWaiters)
    /\ UNCHANGED <<mux, parentClosed, inbound>>

\* Channel.acquire() when "await self.ingress.acquire()" (line 98) gives way
\* to other tasks: the name is registered (line 95) and the ingress created
\* (line 97), the Channel is not marked acquired yet
ChannelAcquireBegin(p, c) ==
    /\ pc[p] = "idle"
    /\ chan[c].st = "detached"
    /\ ~NameTaken(c)
    /\ chan' = [chan EXCEPT ![c].ingress = << >>]
    /\ streams' = [streams EXCEPT ![chan[c].name] = c]
    /\ pc' = [pc EXCEPT ![p] = "acquiring"]
    /\ op' = [op EXCEPT ![p] = StartOp("acquire", c)]
    /\ last' = NoEvent
    /\ UNCHANGED <<mux, parentClosed, lockHolder, lockWaiters, inbound>>

\* ingress.acquire() returns: lines 99-103, then Resource.acquire() marks the
\* Channel acquired
ChannelAcquireEnd(p) ==
    /\ pc[p] = "acquiring"
    /\ LET c == op[p].ch IN
       Return(p, op[p], "ok", "idle",
              [chan EXCEPT ![c].st = "acquired", ![c].ingressSt = "acquired",
                           ![c].egressSt = "acquired"],
              streams, lockHolder, lockWaiters)
    /\ UNCHANGED <<mux, parentClosed, inbound>>

\* ingress.acquire() raises: no child was registered during the attempt, so
\* Resource.acquire() has nothing to release; the failure propagates, the
\* Channel is not acquired and line 95 is not undone
ChannelAcquireFail(p) ==
    /\ pc[p] = "acquiring"
    /\ Return(p, op[p], "error", "idle", chan, streams, lockHolder, lockWaiters)
    /\ UNCHANGED <<mux, parentClosed, inbound>>

\* Channel.write(message): _ensure_open, then egress.write -> Multiplexer.write
ChannelWrite(p, c, v) ==
    /\ pc[p] = "idle"
    /\ chan[c].st # None
    /\ LET o == [StartOp("write", c) EXCEPT !.arg = v] IN
       IF chan[c].closed
          THEN Return(p, o, "reset", "idle", chan, streams, lockHolder, lockWaiters)
       ELSE IF chan[c].st # "acquired" \/ ~mux.acquired
          THEN \* egress is None, or Multiplexer.ensure_acquired raises
               Return(p, o, "error", "idle", chan, streams, lockHolder, lockWaiters)
       ELSE MuxWrite(p, o, MessageFrame(c, v), chan, streams, lockHolder, lockWaiters)
    /\ UNCHANGED <<mux, parentClosed, inbound>>

\* Channel._release, lines 111-120: the rest of the hook after its close
\* frame; Resource.release() then marks the channel not acquired
ReleaseHookFinish(p, o, ch1, st1, h, w) ==
    LET c == o.ch IN
    IF ch1[c].st = "released"
       THEN \* another release got here first: self.multiplexer is None
            Return(p, o, "error", "idle", ch1, st1, h, w)
       ELSE Return(p, o, "ok", "idle",
                   [ch1 EXCEPT ![c].closed = TRUE, ![c].st = "released"],
                   Pop(st1, ch1[c].name), h, w)

\* Channel._release, lines 107-110
ReleaseHook(p, o, ch1, st1, h, w) ==
    LET c == o.ch IN
    IF ~ch1[c].closed /\ mux.acquired
       THEN MuxWrite(p, [o EXCEPT !.phase = "hook"], CloseFrame(c), ch1, st1, h, w)
       ELSE ReleaseHookFinish(p, o, ch1, st1, h, w)

\* Resource.release() of a Channel after egress.release() returned: egress is
\* marked released, ingress (the older child) is released, then the hook runs
ReleaseAfterEgress(p, o, ch1, st1, h, w) ==
    LET c == o.ch IN
    ReleaseHook(p, o,
                [ch1 EXCEPT ![c].egressSt = "released", ![c].ingressSt = "released"],
                st1, h, w)

\* Channel.close, line 137
CloseFinish(p, o, ch1, st1, h, w) ==
    Return(p, o, "ok", "idle", [ch1 EXCEPT ![o.ch].closed = TRUE], st1, h, w)

\* Where ChannelOutputStream.close() returns to
AfterEgressClose(p, o, ch1, st1, h, w) ==
    IF o.kind = "close"
       THEN CloseFinish(p, o, ch1, st1, h, w)
       ELSE ReleaseAfterEgress(p, o, ch1, st1, h, w)

\* ChannelOutputStream.close(), line 45: the close frame is sent whenever the
\* Multiplexer is acquired
EgressSendsClose(c) == mux.acquired

\* ChannelOutputStream.close()
EgressClose(p, o, h, w) ==
    LET c == o.ch
        st1 == Pop(streams, chan[c].name)
    IN  IF chan[c].ingressSt = "released"
           THEN \* ingress.close() on a released Connection: not acquired
                Return(p, o, "error", "idle", chan, st1, h, w)
        ELSE LET ch1 == [chan EXCEPT ![c].ingress = PipeClose(chan[c].ingress)] IN
             IF EgressSendsClose(c)
                THEN MuxWrite(p, [o EXCEPT !.phase = "egress"], CloseFrame(c),
                              ch1, st1, h, w)
                ELSE AfterEgressClose(p, o, ch1, st1, h, w)

\* Channel.close()
ChannelClose(p, c) ==
    /\ pc[p] = "idle"
    /\ chan[c].st # None
    /\ LET o == StartOp("close", c) IN
       IF chan[c].closed
          THEN Return(p, o, "ok", "idle", chan, streams, lockHolder, lockWaiters)
       ELSE IF chan[c].st # "acquired"
          THEN \* egress is None
               Return(p, o, "error", "idle", chan, streams, lockHolder, lockWaiters)
       ELSE EgressClose(p, o, lockHolder, lockWaiters)
    /\ UNCHANGED <<mux, parentClosed, inbound>>

\* Channel.release(): Resource.release() releases the children, the most
\* recently registered first (egress, then ingress), then runs Channel._release
ChannelRelease(p, c) ==
    /\ pc[p] = "idle"
    /\ chan[c].st # None
    /\ LET o == StartOp("release", c) IN
       IF chan[c].st # "acquired"
          THEN Return(p, o, "noop", "idle", chan, streams, lockHolder, lockWaiters)
       ELSE IF chan[c].egressSt = "acquired"
          THEN EgressClose(p, o, lockHolder, lockWaiters)
       ELSE ReleaseAfterEgress(p, o, chan, streams, lockHolder, lockWaiters)
    /\ UNCHANGED <<mux, parentClosed, inbound>>

\* The physical connection as far as the model records it: the number of
\* close frames each Channel has put on it
Sent(ch, c, f) ==
    IF c # NoChan /\ f.type = "close" THEN [ch EXCEPT ![c].closeSent = @ + 1] ELSE ch

\* parent.write(frame) returns inside Multiplexer.write: the frame is on the
\* wire, the mutex is released and the caller goes on
PWriteDone(p) ==
    /\ pc[p] = "pwrite"
    /\ LET o == [op[p] EXCEPT !.emitted = Append(@, op[p].frame), !.frame = NoFrame]
           ch1 == Sent(chan, op[p].ch, op[p].frame)
       IN  CASE o.kind = "write" ->
                    Return(p, o, "ok", "idle", ch1, streams, None, lockWaiters)
             [] o.kind = "close" ->
                    CloseFinish(p, o, ch1, streams, None, lockWaiters)
             [] o.kind = "release" /\ o.phase = "egress" ->
                    ReleaseAfterEgress(p, o, ch1, streams, None, lockWaiters)
             [] o.kind = "release" /\ o.phase = "hook" ->
                    ReleaseHookFinish(p, o, ch1, streams, None, lockWaiters)
             [] o.kind = "dispatch" ->
                    Return(p, o, "ok", "idle", ch1, streams, None, lockWaiters)
    /\ UNCHANGED <<mux, parentClosed, inbound>>

----------------------------------------------------------------------------
(* Multiplexer.release(): Resource.release() releases the children, the    *)
(* most recently registered first, then runs Multiplexer._release, then    *)
(* marks the Multiplexer not acquired.  The children are the ReaderTask    *)
(* (line 204) and, registered before it by connect() (line 186), the       *)
(* Channels; the Multiplexer itself is a child of its parent (line 207).   *)

\* The mutex once the cancelled ReaderTask has left it
Vacated(h) == IF h = Reader THEN None ELSE h

Unqueued(w) == SelectSeq(w, LAMBDA q : q # Reader)

\* Multiplexer.release() is called: no-op when not acquired; otherwise the
\* newest child, the ReaderTask, is released first, which cancels it
MuxRelease(p) ==
    /\ pc[p] = "idle"
    /\ mux.releaser = None
    /\ IF ~mux.acquired
          THEN /\ last' = Event(StartOp("mrelease", NoChan), "noop")
               /\ UNCHANGED <<mux, pc, op, lockHolder, lockWaiters>>
          ELSE /\ mux' = [mux EXCEPT !.releaser = p]
               /\ pc' = [pc EXCEPT ![Reader] = "stopped"]
               /\ op' = [op EXCEPT ![Reader] = IdleOp]
               /\ lockHolder' = Vacated(lockHolder)
               /\ lockWaiters' = Unqueued(lockWaiters)
               /\ last' = NoEvent
    /\ UNCHANGED <<parentClosed, streams, chan, inbound>>

\* The Channels still acquired
Acquired == {c \in Chans : chan[c].st = "acquired"}

\* The next child of the Multiplexer to release: the newest acquired Channel
\* (the release of one that is not acquired is a no-op)
MuxReleaseChild(p) ==
    /\ mux.releaser = p
    /\ Acquired # {}
    /\ ChannelRelease(p, CHOOSE c \in Acquired : \A d \in Acquired : d <= c)

\* The children are released: Resource.release() runs Multiplexer._release
MuxReleaseHook(p) ==
    /\ mux.releaser = p
    /\ pc[p] = "idle"
    /\ Acquired = {}
    /\ pc' = [pc EXCEPT ![p] = "hook"]
    /\ last' = NoEvent
    /\ UNCHANGED <<mux, parentClosed, streams, lockHolder, lockWaiters, chan,
                   op, inbound>>

\* Multiplexer._release, line 210: parent.release(force=False).  A parent
\* that is not acquired is left alone and the release of the Multiplexer
\* ends; one that is acquired goes on to release its children
ParentRelease(p) ==
    /\ pc[p] = "hook"
    /\ IF ~mux.parent
          THEN /\ mux' = [mux EXCEPT !.acquired = FALSE, !.releaser = None]
               /\ pc' = [pc EXCEPT ![p] = "idle"]
               /\ last' = Event(StartOp("mrelease", NoChan), "ok")
          ELSE /\ mux' = mux
               /\ pc' = [pc EXCEPT ![p] = "parent"]
               /\ last' = NoEvent
    /\ UNCHANGED <<parentClosed, streams, lockHolder, lockWaiters, chan, op, inbound>>

\* The parent releases its child, the Multiplexer.  The Multiplexer is marked
\* not acquired only after its hook, so it is still acquired here: its
\* release starts over, finds its own children released, and runs
\* Multiplexer._release once more, one call level down
ParentReleasesChild(p) ==
    /\ pc[p] = "parent"
    /\ IF mux.acquired
          THEN /\ mux' = mux
               /\ pc' = [pc EXCEPT ![p] = "hook"]
          ELSE /\ mux' = [mux EXCEPT !.parent = FALSE]
               /\ pc' = [pc EXCEPT ![p] = "hook"]
    /\ last' = NoEvent
    /\ UNCHANGED <<parentClosed, streams, lockHolder, lockWaiters, chan, op, inbound>>

----------------------------------------------------------------------------
(* Channel.read over the ingress pipe *)

\* Pipe.read() with an item at hand: the head is returned; the end-of-stream
\* sentinel stays, so that every later read returns it again
TakeHead(p, o, c) ==
    LET x == Head(chan[c].ingress) IN
    Return(p, o, x, "idle",
           IF x = EOS THEN chan ELSE [chan EXCEPT ![c].ingress = Tail(@)],
           streams, lockHolder, lockWaiters)

\* Channel._ensure_open that lets every call through
EnsureOpenNeverRaises(c) == FALSE

\* Channel._ensure_open, lines 122-124
EnsureOpenRaises(c) == chan[c].closed

\* Channel.read(): _ensure_open, then ingress.input.read()
ChannelRead(p, c) ==
    /\ pc[p] = "idle"
    /\ chan[c].st # None
    /\ LET o == StartOp("read", c) IN
       IF EnsureOpenRaises(c)
          THEN Return(p, o, "reset", "idle", chan, streams, lockHolder, lockWaiters)
       ELSE IF chan[c].st # "acquired" \/ chan[c].ingressSt # "acquired"
          THEN \* ingress is None, or its input is released
               Return(p, o, "error", "idle", chan, streams, lockHolder, lockWaiters)
       ELSE IF chan[c].ingress = << >>
          THEN /\ pc' = [pc EXCEPT ![p] = "reading"]
               /\ op' = [op EXCEPT ![p] = o]
               /\ last' = NoEvent
               /\ UNCHANGED <<chan, streams, lockHolder, lockWaiters>>
       ELSE TakeHead(p, o, c)
    /\ UNCHANGED <<mux, parentClosed, inbound>>

\* A read suspended on the empty pipe is woken by an item
ReadWake(p) ==
    /\ p \in Tasks
    /\ pc[p] = "reading"
    /\ chan[op[p].ch].ingress # << >>
    /\ TakeHead(p, op[p], op[p].ch)
    /\ UNCHANGED <<mux, parentClosed, inbound>>

----------------------------------------------------------------------------
(* Multiplexer._delivered: the dispatch of one inbound frame *)

\* line 163: msg.get("target", "")
Target(f) == IF f.target = Absent THEN "" ELSE f.target

\* line 164: msg.get("type", "message")
TypeOf(f) == IF f.type = Absent THEN "message" ELSE f.type

\* lines 161-164: what _delivered keeps of the frame: connection, type, the
\* payload field and the buffers
Locals(f) ==
    [target |-> Target(f), type |-> TypeOf(f), payload |-> f.payload,
     blobs |-> f.blobs]

\* line 181 with the buffers left behind
InnerNoBlobs(f) == Message(f.payload, NoBlobs)

\* line 181: Message(msg["payload"], buffers)
Inner(f) == Message(f.payload, f.blobs)

\* line 166 with "illegal" left out
IsCloseOnly(ty) == ty = "close"

\* line 166
IsCloseType(ty) == ty \in {"close", "illegal"}

\* lines 173-179 with the two checks in the other order
DispatchReplyPayloadFirst(f) ==
    IF f.payload = Absent THEN "illegal"
    ELSE IF ~InStreams(Target(f)) THEN "close"
    ELSE None

\* lines 173-179 with the payload check dropped
DispatchReplyNoPayloadCheck(f) ==
    IF ~InStreams(Target(f)) THEN "close" ELSE None

\* lines 173-179: the frame type the dispatch answers a message frame with,
\* None when the frame is to be delivered
DispatchReply(f) ==
    IF ~InStreams(Target(f)) THEN "close"
    ELSE IF f.payload = Absent THEN "illegal"
    ELSE None

\* Channel.deliver(x) raises: ensure_acquired of the channel, or of its ingress
DeliverFails(c, x) ==
    IF chan[c].st # "acquired" THEN x # EOS ELSE chan[c].ingressSt # "acquired"

\* The channels after Channel.deliver(x) on channel c
Delivered(c, x) ==
    LET ch1 == IF x = EOS
                  THEN [chan EXCEPT ![c].closed = TRUE, ![c].remote = TRUE]
                  ELSE chan IN
    IF chan[c].st # "acquired" \/ chan[c].ingressSt # "acquired"
       THEN ch1
       ELSE [ch1 EXCEPT ![c].ingress = PipeWrite(@, x)]

\* The ReaderTask reads frame f from parent.input and calls _delivered(f)
Dispatch(f) ==
    /\ pc[Reader] = "idle"
    /\ inbound < MaxInbound
    /\ inbound' = inbound + 1
    /\ mux' = IF mux.acquired /\ f = InEOS THEN [mux EXCEPT !.shutdown = TRUE] ELSE mux
    /\ LET o == [StartOp("dispatch", NoChan) EXCEPT
                    !.inb = Locals(f),
                    !.pre = [NoPre EXCEPT !.reg = InStreams(Target(f)),
                                          !.mux = mux.acquired]]
           n == Target(f)
           h == lockHolder
           w == lockWaiters
       IN  IF ~mux.acquired
              THEN Return(Reader, o, "ok", "idle", chan, streams, h, w)
           ELSE IF f = InEOS
              THEN \* the ReaderTask ends with the stream
                   Return(Reader, o, "ok", "done", chan, streams, h, w)
           ELSE IF IsCloseType(TypeOf(f))
              THEN IF ~InStreams(n)
                      THEN Return(Reader, o, "ok", "idle", chan, streams, h, w)
                   ELSE IF DeliverFails(streams[n], EOS)
                      THEN Return(Reader, o, "error", "failed",
                                  Delivered(streams[n], EOS), Pop(streams, n), h, w)
                   ELSE Return(Reader, o, "ok", "idle",
                               Delivered(streams[n], EOS), Pop(streams, n), h, w)
           ELSE IF DispatchReply(f) # None
              THEN MuxWrite(Reader, o, ReplyFrame(n, DispatchReply(f)),
                            chan, streams, h, w)
           ELSE IF DeliverFails(streams[n], Inner(f))
              THEN Return(Reader, o, "error", "failed", chan, streams, h, w)
           ELSE Return(Reader, o, "ok", "idle",
                       Delivered(streams[n], Inner(f)), streams, h, w)
    /\ UNCHANGED <<parentClosed>>

----------------------------------------------------------------------------
(* The specification *)

\* The calls a user task can make
UserStep(p) ==
    \/ MuxAcquire(p)
    \/ MuxClose(p)
    \/ \E c \in Chans : ChannelAcquire(p, c)
    \/ \E c \in Chans, v \in Payloads : ChannelWrite(p, c, v)
    \/ \E c \in Chans : ChannelClose(p, c)
    \/ \E c \in Chans : ChannelRelease(p, c)
    \/ \E c \in Chans : ChannelRead(p, c)

\* A suspended task goes on
Resume(p) ==
    \/ LockGranted(p)
    \/ PWriteDone(p)
    \/ PCloseDone(p)
    \/ ReadWake(p)

Next ==
    \/ \E p \in Tasks : UserStep(p)
    \/ \E p \in Procs : Resume(p)
    \/ \E f \in InboundFrames : Dispatch(f)

Spec == Init /\ [][Next]_vars

\* One user task and the ReaderTask
NextOne ==
    \/ UserStep("t1")
    \/ \E p \in Procs : Resume(p)
    \/ inbound < MaxBusyInbound /\ \E f \in InboundFrames : Dispatch(f)

SpecOne == Init /\ [][NextOne]_vars

\* The inbound frames that are not a close: dispatched as messages
MessageFrames == {f \in InboundFrames : f # InEOS /\ ~IsCloseType(TypeOf(f))}

\* The calls of a second user of acquired channels
UseStep(p) ==
    \/ MuxClose(p)
    \/ \E c \in Chans, v \in Payloads : ChannelWrite(p, c, v)
    \/ \E c \in Chans : ChannelClose(p, c)

\* Two user tasks, and a ReaderTask that has message frames to dispatch
NextTwo ==
    \/ MuxAcquire("t1")
    \/ \E c \in Chans : ChannelAcquire("t1", c)
    \/ \E p \in Tasks : UseStep(p)
    \/ \E p \in Procs : LockGranted(p) \/ PWriteDone(p) \/ PCloseDone(p)
    \/ inbound < MaxBusyInbound /\ \E f \in MessageFrames : Dispatch(f)

SpecTwo == Init /\ [][NextTwo]_vars

\* The consumer of the channels named "A" never reads: t1 acquires, writes
\* and closes, t2 writes and reads the other channels, the ReaderTask
\* dispatches every kind of frame, and the physical connection stays open
NextLive ==
    \/ MuxAcquire("t1")
    \/ \E c \in Chans : ChannelAcquire("t1", c)
    \/ \E c \in Chans : ChannelClose("t1", c)
    \/ \E p \in Tasks, c \in Chans, v \in Payloads : ChannelWrite(p, c, v)
    \/ \E c \in Chans : chan[c].name # "A" /\ ChannelRead("t2", c)
    \/ \E p \in Procs : LockGranted(p) \/ PWriteDone(p) \/ ReadWake(p)
    \/ \E f \in InboundFrames : Dispatch(f)

\* The mutex is handed on when it is free, and the physical connection
\* accepts every write
FairLive ==
    \A p \in Procs : WF_vars(LockGranted(p)) /\ WF_vars(PWriteDone(p))

SpecLive == Init /\ [][NextLive]_vars /\ FairLive

\* One user task whose Channel.acquire() may give way or fail at line 98,
\* and the ReaderTask
NextAcquire ==
    \/ MuxAcquire("t1")
    \/ \E c \in Chans : ChannelAcquire("t1", c)
    \/ \E c \in Chans : ChannelAcquireBegin("t1", c)
    \/ ChannelAcquireEnd("t1")
    \/ ChannelAcquireFail("t1")
    \/ \E c \in Chans : ChannelRead("t1", c)
    \/ ReadWake("t1")
    \/ PWriteDone(Reader)
    \/ inbound < MaxBusyInbound /\ \E f \in InboundFrames : Dispatch(f)

SpecAcquire == Init /\ [][NextAcquire]_vars

\* One user task that acquires, closes channels and releases the
\* Multiplexer, and the ReaderTask
NextRelease ==
    \/ mux.releaser = None /\ MuxAcquire("t1")
    \/ mux.releaser = None /\ \E c \in Chans : ChannelAcquire("t1", c)
    \/ mux.releaser = None /\ \E c \in Chans : ChannelClose("t1", c)
    \/ MuxRelease("t1")
    \/ MuxReleaseChild("t1")
    \/ MuxReleaseHook("t1")
    \/ ParentRelease("t1")
    \/ ParentReleasesChild("t1")
    \/ \E p \in Procs : LockGranted(p) \/ PWriteDone(p)
    \/ inbound < MaxBusyInbound /\ \E f \in InboundFrames : Dispatch(f)

\* The releasing task runs on, the mutex is handed on and the physical
\* connection accepts every write
FairRelease ==
    /\ WF_vars(MuxReleaseChild("t1"))
    /\ WF_vars(MuxReleaseHook("t1"))
    /\ WF_vars(ParentRelease("t1"))
    /\ WF_vars(ParentReleasesChild("t1"))
    /\ \A p \in Procs : WF_vars(LockGranted(p)) /\ WF_vars(PWriteDone(p))

SpecRelease == Init /\ [][NextRelease]_vars /\ FairRelease

\* The message frames whose fields and blobs are told apart
FlowFrames ==
    [target : Names, type : {"message"}, payload : Fields, blobs : BlobLists]

\* One user task that writes and reads messages, and a ReaderTask that
\* dispatches message frames
NextFlow ==
    \/ MuxAcquire("t1")
    \/ \E c \in Chans : ChannelAcquire("t1", c)
    \/ \E c \in Chans, v \in Messages : ChannelWrite("t1", c, v)
    \/ \E c \in Chans : ChannelRead("t1", c)
    \/ \E p \in Procs : LockGranted(p) \/ PWriteDone(p) \/ ReadWake(p)
    \/ \E f \in FlowFrames : Dispatch(f)

SpecFlow == Init /\ [][NextFlow]_vars

----------------------------------------------------------------------------
(* Properties *)

\* The tasks inside parent.write or parent.close
OnWire == {p \in Procs : pc[p] \in {"pwrite", "pclose"}}

\* C1: at most one task is inside parent.write (from Multiplexer.write) or
\* parent.close (from Multiplexer.close) at any moment, and it is the holder
\* of the write mutex: a frame is never started before the previous one is
\* finished.
C1_WritesSerialized ==
    /\ Cardinality(OnWire) <= 1
    /\ \A p \in OnWire : lockHolder = p

\* Two tasks write on distinct channels: one is inside parent.write, the other
\* waits for the mutex.
C1_Witness ==
    \E p, q \in Tasks :
        /\ pc[p] = "pwrite" /\ op[p].kind = "write"
        /\ pc[q] = "lock" /\ op[q].kind = "write"
        /\ chan[op[p].ch].name # chan[op[q].ch].name

\* Channel c is not acquired yet and its name is registered for another
\* Channel that is acquired and open
NameHeldByOther(c) ==
    /\ chan[c].st = "detached"
    /\ InStreams(chan[c].name)
    /\ streams[chan[c].name] # c
    /\ chan[streams[chan[c].name]].st = "acquired"
    /\ ~chan[streams[chan[c].name]].closed

\* C2: acquire() of a second Channel whose name is registered for an acquired,
\* open Channel fails with an error and changes neither the registry nor any
\* channel (the first stays registered, acquired and open); and a message
\* frame dispatched for a registered name is appended to the ingress of the
\* Channel the registry holds for it.
C2_DuplicateAcquireFails ==
    [][/\ \A c \in Chans :
            (last'.kind = "acquire" /\ last'.ch = c /\ NameHeldByOther(c))
            => (last'.res = "error" /\ streams' = streams /\ chan' = chan)
       /\ (/\ last'.kind = "dispatch"
           /\ inbound' # inbound
           /\ last'.pre.mux
           /\ last'.inb.type = "message"
           /\ last'.inb.payload # Absent
           /\ InStreams(last'.inb.target))
          => LET c == streams[last'.inb.target] IN
             /\ last'.res = "ok"
             /\ streams' = streams
             /\ chan' = [chan EXCEPT ![c].ingress = Append(@, Inner(last'.inb))]
      ]_vars

\* A second acquire under a held name has just failed.
C2_Witness ==
    /\ last.kind = "acquire"
    /\ last.res = "error"
    /\ NameHeldByOther(last.ch)

\* The frame whose dispatch starts in this step (when inbound changes)
NowDispatched ==
    IF pc'[Reader] \in {"lock", "pwrite"} THEN op'[Reader].inb ELSE last'.inb

\* A step of a dispatch that answers with one frame of type ty and touches
\* nothing else: reg tells whether the target is registered, pl the payload
\* field
AnswersOnly(reg, pl, ty) ==
    /\ (/\ last'.kind = "dispatch"
        /\ last'.pre.mux
        /\ last'.inb.type = "message"
        /\ last'.pre.reg = reg
        /\ last'.inb.payload \in pl)
       => (/\ last'.res = "ok"
           /\ last'.emitted = << ReplyFrame(last'.inb.target, ty) >>)
    /\ (/\ inbound' # inbound
        /\ mux.acquired
        /\ NowDispatched.type = "message"
        /\ InStreams(NowDispatched.target) = reg
        /\ NowDispatched.payload \in pl)
       => (/\ pc'[Reader] \in {"lock", "pwrite"}
           /\ op'[Reader].frame = ReplyFrame(NowDispatched.target, ty)
           /\ streams' = streams
           /\ chan' = chan)
    /\ (/\ op[Reader].kind = "dispatch"
        /\ op[Reader].inb.type = "message"
        /\ op[Reader].pre.reg = reg
        /\ op[Reader].inb.payload \in pl
        /\ pc'[Reader] # pc[Reader])
       => (streams' = streams /\ chan' = chan)

\* C3: the dispatch of a message frame (type "message" or no type field) for
\* a target that is not registered writes exactly one frame, of type "close"
\* for that target, delivers nothing to any ingress and leaves the registry
\* as it is, with or without a payload in the frame.
C3_UnknownTargetAnswered ==
    [][AnswersOnly(FALSE, Payloads \cup {Absent}, "close")]_vars

\* A payload-less message frame for an unregistered target has been answered
\* with a close frame.
C3_Witness ==
    /\ last.kind = "dispatch"
    /\ last.inb.type = "message"
    /\ last.inb.payload = Absent
    /\ ~last.pre.reg
    /\ last.emitted = << ReplyFrame(last.inb.target, "close") >>

\* C4: the dispatch of a message frame without payload for a registered
\* target writes exactly one frame, of type "illegal" for that target, raises
\* nothing, delivers nothing and leaves the channel registered and open.
C4_MissingPayloadAnswered ==
    [][AnswersOnly(TRUE, {Absent}, "illegal")]_vars

\* A payload-less message frame for a registered target has been answered
\* with an illegal frame, and the target is still registered and open.
C4_Witness ==
    /\ last.kind = "dispatch"
    /\ last.inb.type = "message"
    /\ last.inb.payload = Absent
    /\ last.pre.reg
    /\ last.emitted = << ReplyFrame(last.inb.target, "illegal") >>
    /\ InStreams(last.inb.target)
    /\ ~chan[streams[last.inb.target]].closed

\* C5: a release of an acquired Channel that is not closed, with the
\* Multiplexer acquired, writes exactly one frame: the close frame of the
\* channel's name.
C5_ReleaseEmitsOneClose ==
    (/\ last.kind = "release"
     /\ last.pre.acq
     /\ ~last.pre.closed
     /\ last.pre.mux)
    => last.emitted = << CloseFrame(last.ch) >>

\* C6: a release of an acquired Channel that has been closed by an inbound
\* close or illegal frame writes no frame for the channel's name.
C6_ReleaseAfterRemoteCloseSilent ==
    (/\ last.kind = "release"
     /\ last.pre.acq
     /\ last.pre.remote)
    => \A i \in 1..Len(last.emitted) :
           last.emitted[i].target # chan[last.ch].name

\* C7: the dispatch of a close or illegal frame writes no frame; when the
\* target is registered it is removed from the registry, its channel is marked
\* closed and an end-of-stream is appended to its ingress; when it is not,
\* nothing changes.
C7_RemoteClose ==
    [][(/\ last'.kind = "dispatch"
        /\ last'.pre.mux
        /\ last'.inb.type \in {"close", "illegal"})
       => LET n == last'.inb.target IN
          /\ last'.res = "ok"
          /\ last'.emitted = << >>
          /\ inbound' # inbound
          /\ pc' = pc
          /\ lockHolder' = lockHolder /\ lockWaiters' = lockWaiters
          /\ mux' = mux
          /\ IF InStreams(n)
                THEN LET c == streams[n] IN
                     /\ streams' = [streams EXCEPT ![n] = NoChan]
                     /\ chan'[c].closed
                     /\ chan'[c].ingress = Append(chan[c].ingress, EOS)
                     /\ \A d \in Chans \ {c} : chan'[d] = chan[d]
                ELSE streams' = streams /\ chan' = chan
      ]_vars

\* An illegal frame for a registered target has closed its channel.
C7_Witness ==
    /\ last.kind = "dispatch"
    /\ last.inb.type = "illegal"
    /\ last.pre.reg
    /\ ~InStreams(last.inb.target)
    /\ \E c \in Chans :
           /\ chan[c].name = last.inb.target
           /\ chan[c].st = "acquired"
           /\ chan[c].closed
           /\ chan[c].ingress # << >>
           /\ chan[c].ingress[Len(chan[c].ingress)] = EOS

\* C8: once an inbound close frame has closed an acquired channel, a read()
\* on it (pending before, or called after) that has no earlier message to
\* return returns the end-of-stream signal None.
C8_ReadAfterCloseReturnsNone ==
    (/\ last.kind = "read"
     /\ last.pre.acq
     /\ chan[last.ch].remote
     /\ last.res \notin Payloads)
    => last.res = EOS

\* C9: close() calls on an acquired channel of an acquired Multiplexer leave
\* the channel closed with at most one close frame written for it: the call
\* that found the channel open wrote it, a call that found it closed wrote
\* nothing.
C9_CloseIdempotent ==
    (/\ last.kind = "close"
     /\ last.pre.acq
     /\ last.pre.mux)
    => /\ chan[last.ch].closed
       /\ chan[last.ch].closeSent <= 1
       /\ last.emitted = IF last.pre.closed THEN << >> ELSE << CloseFrame(last.ch) >>

\* C10: no two acquired (and not yet released) Channels bear the same name.
C10_OneLiveChannelPerName ==
    \A c, d \in Chans :
        (c # d /\ chan[c].st = "acquired" /\ chan[d].st = "acquired")
        => chan[c].name # chan[d].name

\* A step in which the dispatch delivers a message to the channel registered
\* for its target
DeliversMessage ==
    /\ last'.kind = "dispatch"
    /\ inbound' # inbound
    /\ last'.pre.mux
    /\ last'.inb.type = "message"
    /\ last'.inb.payload # Absent
    /\ InStreams(last'.inb.target)

\* A step in which a read() returns a message
ReturnsMessage == last'.kind = "read" /\ last'.res \in Messages

\* C11: the ingress of a channel is a first-in first-out queue of the
\* message frames dispatched for its name: the dispatch of a message frame
\* for a registered name appends its message at the tail of that channel's
\* ingress and leaves every other ingress alone, a read() that returns a
\* message returns and removes the head of its channel's ingress and leaves
\* every other ingress alone, and no other step touches an ingress.  So the
\* reads on a channel return its messages in the order the Multiplexer
\* received them, whatever is dispatched for other targets in between.
C11_OrderPreserved ==
    [][/\ DeliversMessage
          => LET c == streams[last'.inb.target] IN
             /\ chan'[c].ingress = Append(chan[c].ingress, Inner(last'.inb))
             /\ \A d \in Chans \ {c} : chan'[d].ingress = chan[d].ingress
       /\ ReturnsMessage
          => LET c == last'.ch IN
             /\ chan[c].ingress # << >>
             /\ last'.res = Head(chan[c].ingress)
             /\ chan'[c].ingress = Tail(chan[c].ingress)
             /\ \A d \in Chans \ {c} : chan'[d].ingress = chan[d].ingress
       /\ (~DeliversMessage /\ ~ReturnsMessage)
          => \A d \in Chans : chan'[d].ingress = chan[d].ingress
      ]_vars

\* Three frames came in, the middle one for another channel; a read on the
\* first channel has returned its first message and its second, a different
\* one, is still queued behind.
C11_Witness ==
    /\ inbound = 3
    /\ last.kind = "read"
    /\ last.res \in Messages
    /\ Len(chan[last.ch].ingress) = 1
    /\ chan[last.ch].ingress[1] \in Messages \ {last.res}
    /\ \E d \in Chans \ {last.ch} :
           chan[d].name # chan[last.ch].name /\ Len(chan[d].ingress) = 1

\* The frame that carries the fields v and the blobs b for the channel of
\* the call that returned last
Carrying(v, b) ==
    [target |-> chan[last.ch].name, type |-> "message", payload |-> v, blobs |-> b]

\* A write() on a channel that was acquired and open when it was called has
\* put exactly one frame on the physical connection: the message frame of the
\* channel's name with the fields and the blobs of the message.
WriteCarried ==
    \A v \in Fields, b \in BlobLists :
        (/\ last.kind = "write"
         /\ last.pre.acq
         /\ ~last.pre.closed
         /\ last.arg = Message(v, b))
        => (last.res = "ok" /\ last.emitted = << Carrying(v, b) >>)

\* The dispatch of a message frame for a registered name puts the message of
\* its payload and its blobs at the tail of the channel's ingress, and a
\* read() that returns a message returns the head of the ingress as it is.
DispatchCarried ==
    /\ DeliversMessage
       => LET q == chan'[streams[last'.inb.target]].ingress IN
          /\ q # << >>
          /\ ValuesOf(q[Len(q)]) = last'.inb.payload
          /\ BlobsOf(q[Len(q)]) = last'.inb.blobs
          /\ Len(q) = Len(chan[streams[last'.inb.target]].ingress) + 1
    /\ ReturnsMessage
       => /\ chan[last'.ch].ingress # << >>
          /\ last'.res = Head(chan[last'.ch].ingress)

C13_ClosedIsTerminal ==
    [][/\ \A c \in Chans : chan[c].closed => chan'[c].closed
       /\ (last'.kind \in {"read", "write"} /\ last'.pre.closed)
          => /\ last'.res = "reset"
             /\ last'.emitted = << >>
             /\ chan[last'.ch].closed
             /\ chan' = chan
             /\ streams' = streams
             /\ mux' = mux
             /\ parentClosed' = parentClosed
             /\ lockHolder' = lockHolder
             /\ lockWaiters' = lockWaiters
      ]_vars

\* A read() on an acquired channel that a close() has closed has failed with
\* a connection reset.
C13_Witness ==
    /\ last.kind = "read"
    /\ last.res = "reset"
    /\ last.pre.acq
    /\ last.pre.closed
    /\ ~chan[last.ch].remote
    /\ chan[last.ch].closeSent = 1

\* The dispatch of a frame is under way: the ReaderTask waits for the write
\* mutex or for the physical connection
Dispatching == pc[Reader] \in {"lock", "pwrite"}

\* C14: while the consumer of channel A never reads and the physical
\* connection accepts writes, the dispatch loop never fails or stalls: every
\* dispatch that has to answer with a close or illegal frame, and so has to
\* take the write mutex, finishes and leaves the ReaderTask ready for the
\* next frame, however many unread messages sit in A's ingress; a message
\* frame for another registered channel is in that channel's ingress as soon
\* as its dispatch step is done.
C14_DispatchNeverStalls ==
    /\ [](pc[Reader] # "failed")
    /\ Dispatching ~> (pc[Reader] = "idle")
    /\ [][DeliversMessage
          => LET q == chan'[streams[last'.inb.target]].ingress IN
             q # << >> /\ q[Len(q)] = Inner(last'.inb)]_vars

\* Two unread messages sit in the ingress of A; the dispatch of the third
\* frame has answered with a frame, for which it took the write mutex, and
\* has returned.
C14_Witness ==
    /\ inbound = 3
    /\ last.kind = "dispatch"
    /\ last.res = "ok"
    /\ Len(last.emitted) = 1
    /\ pc[Reader] = "idle"
    /\ \E c \in Chans : chan[c].name = "A" /\ Len(chan[c].ingress) = 2

\* A step of a close() or release of channel c: the call starts, goes on or
\* returns
ClosesOrReleases(c) ==
    \/ last'.kind \in {"close", "release"} /\ last'.ch = c
    \/ \E p \in Tasks :
           /\ op'[p].kind \in {"close", "release"}
           /\ op'[p].ch = c
           /\ (pc'[p] # pc[p] \/ op'[p] # op[p])

\* Channel d is the one the registry holds for its name
Registered(d) == streams[chan[d].name] = d

\* C15: no step of a close() or a release of one Channel changes another
\* Channel of the Multiplexer: the other one's entry in the registry, its
\* closed flag and its ingress stay as they were, also when the two bear the
\* same name.
C15_SiblingsUntouched ==
    [][\A c \in Chans :
          ClosesOrReleases(c)
          => \A d \in Chans \ {c} :
                /\ Registered(d)' = Registered(d)
                /\ chan'[d].closed = chan[d].closed
                /\ chan'[d].ingress = chan[d].ingress
      ]_vars

\* Multiplexer.close() has completed or an end-of-stream has been dispatched
Unusable == mux.closed \/ mux.shutdown

\* C16: a Channel.close() or a Channel release called when Multiplexer.close()
\* has completed, or when an end-of-stream has been dispatched, hands no
\* frame to Multiplexer.write: it returns, or goes on, without a frame to
\* write to the physical connection.
C16_SilentWhenUnusable ==
    [][\A p \in Tasks :
          (/\ pc[p] = "idle"
           /\ op'[p].kind \in {"close", "release"}
           /\ Unusable)
          => op'[p].frame = NoFrame
      ]_vars

\* C17: whenever the dispatch callback has run, on an acquired Multiplexer,
\* for a message frame with a payload whose target is registered, nothing
\* was raised into the ReaderTask: the registered Channel was acquired and
\* had its ingress, so the message was delivered and the ReaderTask goes on.
C17_DispatchNeverRaises ==
    /\ pc[Reader] # "failed"
    /\ (/\ last.kind = "dispatch"
        /\ last.pre.mux
        /\ last.pre.reg
        /\ last.inb.type = "message"
        /\ last.inb.payload # Absent)
       => last.res = "ok"

\* C18: no message frame of a Channel goes onto the physical connection
\* after a close frame of that Channel: while a write() on a channel is
\* inside parent.write with its message frame, no close frame of the channel
\* has been written yet.
C18_NoMessageAfterClose ==
    \A p \in Tasks :
        (pc[p] = "pwrite" /\ op[p].kind = "write" /\ op[p].frame.type = "message")
        => chan[op[p].ch].closeSent = 0

\* The messages still queued in the ingress q
Queued(q) == {i \in 1..Len(q) : q[i] # EOS}

\* C19: a read() on an acquired channel that reports its closure by the
\* remote peer (an end-of-stream or a connection reset) does so only when
\* no message dispatched before the close frame is left in the ingress: the
\* queued messages are returned first.
C19_QueuedMessagesReadFirst ==
    (/\ last.kind = "read"
     /\ last.pre.acq
     /\ chan[last.ch].st = "acquired"
     /\ chan[last.ch].remote
     /\ last.res \in {EOS, "reset"})
    => Queued(chan[last.ch].ingress) = {}

\* Multiplexer.release() has returned and everything is released
AllReleased ==
    /\ mux.releaser = None
    /\ ~mux.acquired
    /\ ~mux.parent
    /\ pc[Reader] = "stopped"
    /\ \A c \in Chans : chan[c].st # "acquired"
    /\ \A n \in Names : ~InStreams(n)

\* C20: a release() of an acquired Multiplexer returns, and when it has the
\* Multiplexer, its ReaderTask, its Channels and the parent connection are
\* not acquired and the registry is empty.
C20_ReleaseTerminates ==
    (mux.releaser # None) ~> AllReleased

====
